---- MODULE Spec2Model ----
(***************************************************************************)
(* weewx-aprs: bin/user/aprs-formatter.py.                                 *)
(*                                                                         *)
(* The APRS service builds an encoding profile once (APRS.__init__) and,   *)
(* for every archive record the host engine delivers, encodes one packet   *)
(* and replaces the output file with it (_handle_new_archive_record).      *)
(*                                                                         *)
(* Text is a sequence of one-character strings.  A number of a record is   *)
(* the rational n/d (d = 1 or 2), so that rounding of halves is visible.   *)
(* The file system is a table of names over inodes, so that a reader that  *)
(* opened the output file keeps reading the inode it opened.               *)
(***************************************************************************)
EXTENDS Integers, Sequences, FiniteSets, TLC

\* Bounds of the model.
MaxVaried == 2        \* keys of a record that differ from BaseRecord (SpecEnc)
MaxEvents == 3        \* archive records the host engine delivers (Spec)
MaxShortWrite == 2    \* characters a failing write may leave in the file
ReadChunk == 16       \* characters the reader takes per read call
MaxInodes == 3        \* inodes of the file system

VARIABLES
    conf,         \* config_dict['APRS']
    profile,      \* the instance fields __init__ derives from conf
    pc,           \* where the service is: idle, encode, open, write, rename
    record,       \* event.record of the current handler run
    data,         \* the list `data` of fragments, each tagged with its field
    log,          \* fields for which logging.error was called
    raised,       \* exception leaving the encoding part, or "none"
    raisedAt,     \* the encoding step that raised, or "none"
    wxdata,       \* ''.join(data)
    outcome,      \* how the current/last handler run ended
    prevOutcome,  \* how the run before it ended
    events,       \* archive records delivered so far
    names,        \* directory: file name -> inode (0: no such file)
    inodes,       \* inode -> content
    hfd,          \* inode the handler has open for writing (0: none)
    rfd,          \* inode the reader has open (0: none)
    rpos,         \* the reader's file offset
    rbuf,         \* what the reader has read since it opened the file
    observed,     \* the last content the reader read to end of file
    produced,     \* packets joined by some handler run
    lastRenamed   \* the last packet renamed into place

vars == <<conf, profile, pc, record, data, log, raised, raisedAt, wxdata,
          outcome, prevOutcome, events, names, inodes, hfd, rfd, rpos, rbuf,
          observed, produced, lastRenamed>>

encVars == <<data, log, raised, raisedAt, wxdata>>
readerVars == <<rfd, rpos, rbuf, observed>>

----------------------------------------------------------------------------
\* Text helpers

Abs(x) == IF x < 0 THEN -x ELSE x

Min(a, b) == IF a < b THEN a ELSE b

DigitChar(k) == <<"0", "1", "2", "3", "4", "5", "6", "7", "8", "9">>[k + 1]

RECURSIVE Digits(_)
Digits(n) ==
    IF n < 10 THEN <<DigitChar(n)>>
    ELSE Append(Digits(n \div 10), DigitChar(n % 10))

Zeros(k) == [i \in 1..k |-> "0"]

\* The '0' flag with a minimum width: the sign is part of the width.
ZeroPad(width, neg, mag) ==
    LET sign == IF neg THEN <<"-">> ELSE <<>>
        body == Digits(mag)
        k    == width - Len(sign) - Len(body)
    IN  sign \o Zeros(IF k > 0 THEN k ELSE 0) \o body

\* round() of Python 3, and the rounding of '%.f': the nearest integer to
\* n/d (d > 0), ties to the even one.
RoundHalfEven(n, d) ==
    LET q == n \div d
        r == n % d
    IN  IF 2 * r < d THEN q
        ELSE IF 2 * r > d THEN q + 1
        ELSE IF q % 2 = 0 THEN q ELSE q + 1

\* int() of a float: towards zero.
Trunc(n, d) == IF n >= 0 THEN n \div d ELSE -((-n) \div d)

\* '%0<width>.f' % (n/d): no decimals, ties to even, a negative value keeps
\* its sign even when it rounds to zero.
FormatF(width, n, d) == ZeroPad(width, n < 0, Abs(RoundHalfEven(n, d)))

\* '%0<width>u' % x: the integer part of x, signed.
FormatU(width, n, d) == ZeroPad(width, Trunc(n, d) < 0, Abs(Trunc(n, d)))

\* `sub in s`
Contains(s, sub) ==
    \E i \in 1..(Len(s) - Len(sub) + 1) : SubSeq(s, i, i + Len(sub) - 1) = sub

Dots == <<".", ".", ".">>

----------------------------------------------------------------------------
\* Values of a record

Absent == [t |-> "absent", n |-> 0, d |-> 1]   \* the key is not in the record
None   == [t |-> "none", n |-> 0, d |-> 1]     \* the key maps to None
NotNum == [t |-> "str", n |-> 0, d |-> 1]      \* a non-numeric string
Num(n) == [t |-> "num", n |-> n, d |-> 1]
Half(n) == [t |-> "num", n |-> n, d |-> 2]     \* n/2

\* record.get(k) is not None
Present(rec, k) == rec[k].t \notin {"absent", "none"}

IsNum(v) == v.t = "num"

Keys == {"dateTime", "windDir", "windSpeed", "windGust", "outTemp",
         "rainRate", "daily_rain", "dayRain", "outHumidity", "barometer",
         "luminosity"}

----------------------------------------------------------------------------
\* APRS.__init__: the profile

Accurite == <<"a", "c", "c", "u", "r", "i", "t", "e">>

StationModels ==
    { <<"v", "a", "n", "t", "a", "g", "e">>,
      <<"A", "c", "c", "u", "r", "i", "t", "e">>,
      <<"x", "-">> \o Accurite \o <<"1">> }

Comments == { <<>>, <<"w", "x">> }

Confs ==
    [station_model : StationModels, include_position : {0, 1},
     report_luminosity : {0, 1}, comment : Comments]

\* The station's coordinates, in hundredths of a minute of arc (north and
\* east positive): 37 deg 48.00' N, 122 deg 16.50' W.
StationLatitude == 37 * 6000 + 4800
StationLongitude == -(122 * 6000 + 1650)

\* ''.join(weeutil.weeutil.latlon_string(ll, hemi, which)): degrees on 2
\* (latitude) or 3 (longitude) digits, minutes as %05.2f, the hemisphere.
LatLonString(ll, hemi, which) ==
    LET labs == Abs(ll)
        mh   == labs % 6000
    IN  ZeroPad(IF which = "lat" THEN 2 ELSE 3, FALSE, labs \div 6000)
        \o ZeroPad(2, FALSE, mh \div 100) \o <<".">> \o ZeroPad(2, FALSE, mh % 100)
        \o <<IF ll >= 0 THEN hemi[1] ELSE hemi[2]>>

\* Lines 23-34: the defaults and the station-model branch.  The accurite
\* branch assigns _wind_direction_marker twice and _wind_speed_marker never.
BaseProfile(c) ==
    LET acc == Contains(c.station_model, Accurite)
    IN  [stationModel          |-> c.station_model,
         include_position      |-> c.include_position,
         reportLuminosity      |-> c.report_luminosity,
         comment               |-> c.comment,
         symbol_table          |-> <<"/">>,
         symbol_code           |-> <<"_">>,
         message_type          |-> <<"_">>,
         time_format           |-> "%m%d%H%M",
         latitude              |-> <<>>,
         longitude             |-> <<>>,
         wind_direction_marker |-> IF acc THEN <<"/">> ELSE <<"c">>,
         has_wind_speed_marker |-> ~acc,
         wind_speed_marker     |-> IF acc THEN <<>> ELSE <<"s">>]

\* Lines 36-47: the position overrides.
PositionOverrides(p) ==
    [p EXCEPT !.message_type = <<"/">>,
              !.time_format = "%d%H%Mz",
              !.latitude = LatLonString(StationLatitude, <<"N", "S">>, "lat"),
              !.longitude = LatLonString(StationLongitude, <<"E", "W">>, "lon"),
              !.wind_direction_marker = <<>>,
              !.has_wind_speed_marker = TRUE,
              !.wind_speed_marker = <<"/">>]

\* A resolver that applies the station-model branch after the position
\* overrides instead of before them.
APRSInitModelLast(c) ==
    LET b == BaseProfile(c)
        o == IF c.include_position # 0 THEN PositionOverrides(b) ELSE b
    IN  [o EXCEPT !.wind_direction_marker = b.wind_direction_marker,
                  !.has_wind_speed_marker = b.has_wind_speed_marker \/ @,
                  !.wind_speed_marker =
                      IF b.has_wind_speed_marker THEN b.wind_speed_marker ELSE @]

APRSInit(c) ==
    IF c.include_position # 0 THEN PositionOverrides(BaseProfile(c))
    ELSE BaseProfile(c)

----------------------------------------------------------------------------
\* datetime.strftime(datetime.utcfromtimestamp(t), fmt)

\* Month and day of the civil date `days` days after 1970-01-01.
CivilFromDays(days) ==
    LET z   == days + 719468
        era == z \div 146097
        doe == z - era * 146097
        yoe == (doe - doe \div 1460 + doe \div 36524 - doe \div 146096) \div 365
        doy == doe - (365 * yoe + yoe \div 4 - yoe \div 100)
        mp  == (5 * doy + 2) \div 153
    IN  [d |-> doy - (153 * mp + 2) \div 5 + 1,
         m |-> IF mp < 10 THEN mp + 3 ELSE mp - 9]

FormatTime(fmt, t) ==
    LET md == CivilFromDays(t \div 86400)
        hh == ZeroPad(2, FALSE, (t % 86400) \div 3600)
        mm == ZeroPad(2, FALSE, (t % 3600) \div 60)
        dd == ZeroPad(2, FALSE, md.d)
    IN  IF fmt = "%m%d%H%M" THEN ZeroPad(2, FALSE, md.m) \o dd \o hh \o mm
        ELSE dd \o hh \o mm \o <<"z">>

----------------------------------------------------------------------------
\* _handle_new_archive_record, lines 54-168: the encoding part.  The state
\* of the encoding is the list `data`, the error log, and the exception (if
\* any) that left the handler, with the step it left from.

Fields == <<"messageType", "timestamp", "latitude", "symbolTable",
            "longitude", "symbolCode", "windDir", "windSpeed", "windGust",
            "outTemp", "rainRate", "dayRain", "outHumidity", "barometer",
            "luminosity", "comment">>

Rank(f) == CHOOSE i \in 1..Len(Fields) : Fields[i] = f

EncStart == [data |-> <<>>, log |-> {}, raised |-> "none", raisedAt |-> "none"]

Emit(st, f, s) == [st EXCEPT !.data = Append(@, [f |-> f, s |-> s])]

Raise(st, exc, at) == [st EXCEPT !.raised = exc, !.raisedAt = at]

LogError(st, f) == [st EXCEPT !.log = @ \cup {f}]

\* Lines 56-64.  The list is built before `data` is bound: a failing
\* record['dateTime'] or utcfromtimestamp leaves no fragment.
HeaderStep(p, rec, st) ==
    IF st.raised # "none" THEN st
    ELSE IF Contains(p.stationModel, Accurite)
    THEN Emit(Emit(st, "messageType", p.message_type), "timestamp", <<>>)
    ELSE IF rec["dateTime"].t = "absent" THEN Raise(st, "KeyError", "timestamp")
    ELSE IF ~IsNum(rec["dateTime"]) THEN Raise(st, "TypeError", "timestamp")
    ELSE Emit(Emit(st, "messageType", p.message_type), "timestamp",
              FormatTime(p.time_format, rec["dateTime"].n))

\* Lines 66-70.
PositionStep(p, rec, st) ==
    IF st.raised # "none" THEN st
    ELSE IF p.include_position # 0
    THEN Emit(Emit(Emit(Emit(st, "latitude", p.latitude),
                        "symbolTable", p.symbol_table),
                   "longitude", p.longitude),
              "symbolCode", p.symbol_code)
    ELSE st

\* A clamp that lets a direction of exactly 0 through.
ClampWindDirBelowZero(w) == IF w < 0 THEN 360 ELSE w

\* Lines 80-81.
ClampWindDir(w) == IF w <= 0 THEN 360 ELSE w

\* Lines 72-89.  round() is outside the try.
WindDirStep(p, rec, st) ==
    IF st.raised # "none" THEN st
    ELSE IF Present(rec, "windDir")
    THEN IF ~IsNum(rec["windDir"]) THEN Raise(st, "TypeError", "windDir")
         ELSE LET wind_dir ==
                      ClampWindDir(RoundHalfEven(rec["windDir"].n, rec["windDir"].d))
              IN  Emit(st, "windDir",
                       p.wind_direction_marker \o FormatU(3, wind_dir, 1))
    ELSE Emit(st, "windDir", p.wind_direction_marker \o Dots)

\* Lines 91-99.  Without a _wind_speed_marker attribute the format
\* expression raises AttributeError; inside the try the except clause
\* evaluates the attribute again for the log line, so it leaves the handler
\* in both branches.
WindSpeedStep(p, rec, st) ==
    IF st.raised # "none" THEN st
    ELSE IF ~p.has_wind_speed_marker THEN Raise(st, "AttributeError", "windSpeed")
    ELSE IF Present(rec, "windSpeed")
    THEN IF IsNum(rec["windSpeed"])
         THEN Emit(st, "windSpeed",
                   p.wind_speed_marker
                   \o FormatF(3, rec["windSpeed"].n, rec["windSpeed"].d))
         ELSE LogError(st, "windSpeed")
    ELSE Emit(st, "windSpeed", p.wind_speed_marker \o Dots)

\* Lines 101-109.
WindGustStep(p, rec, st) ==
    IF st.raised # "none" THEN st
    ELSE IF Present(rec, "windGust")
    THEN IF IsNum(rec["windGust"])
         THEN Emit(st, "windGust",
                   <<"g">> \o FormatF(3, rec["windGust"].n, rec["windGust"].d))
         ELSE Emit(LogError(st, "windGust"), "windGust", <<"g">> \o Dots)
    ELSE Emit(st, "windGust", <<"g">> \o Dots)

\* A temperature field whose magnitude is padded to 3 digits whatever the
\* sign.
OutTempStepMagnitudePadded(p, rec, st) ==
    IF st.raised # "none" THEN st
    ELSE IF Present(rec, "outTemp") /\ IsNum(rec["outTemp"])
    THEN LET r == RoundHalfEven(rec["outTemp"].n, rec["outTemp"].d)
         IN  Emit(st, "outTemp",
                  <<"t">> \o (IF rec["outTemp"].n < 0 THEN <<"-">> ELSE <<>>)
                  \o ZeroPad(3, FALSE, Abs(r)))
    ELSE Emit(st, "outTemp", <<"t">> \o Dots)

\* Lines 111-118.  The except clause does not log.
OutTempStep(p, rec, st) ==
    IF st.raised # "none" THEN st
    ELSE IF Present(rec, "outTemp") /\ IsNum(rec["outTemp"])
    THEN Emit(st, "outTemp",
              <<"t">> \o FormatF(3, rec["outTemp"].n, rec["outTemp"].d))
    ELSE Emit(st, "outTemp", <<"t">> \o Dots)

\* Lines 120-125.  The log line of the except clause has three %s and two
\* arguments: building it raises TypeError out of the handler.
RainRateStep(p, rec, st) ==
    IF st.raised # "none" THEN st
    ELSE IF Present(rec, "rainRate")
    THEN IF IsNum(rec["rainRate"])
         THEN Emit(st, "rainRate",
                   <<"r">> \o FormatF(3, rec["rainRate"].n * 100, rec["rainRate"].d))
         ELSE Raise(st, "TypeError", "rainRate")
    ELSE st

\* Lines 127-132.  The test reads 'daily_rain', the value is record['dayRain'];
\* the except clause evaluates record['dayRain'] * 100 again (and its log
\* line is short of an argument), so every failure leaves the handler.
DailyRainStep(p, rec, st) ==
    IF st.raised # "none" THEN st
    ELSE IF Present(rec, "daily_rain")
    THEN IF IsNum(rec["dayRain"])
         THEN Emit(st, "dayRain",
                   <<"P">> \o FormatF(3, rec["dayRain"].n * 100, rec["dayRain"].d))
         ELSE IF rec["dayRain"].t = "absent" THEN Raise(st, "KeyError", "dayRain")
         ELSE Raise(st, "TypeError", "dayRain")
    ELSE st

\* A clamp that lets a humidity of exactly 100 through.
ClampHumidityAbove100(h) == IF h > 100 THEN 0 ELSE h

\* Lines 140-141.
ClampHumidity(h) == IF h >= 100 THEN 0 ELSE h

\* Lines 134-145.  round() is outside the try.
HumidityStep(p, rec, st) ==
    IF st.raised # "none" THEN st
    ELSE IF Present(rec, "outHumidity")
    THEN IF ~IsNum(rec["outHumidity"]) THEN Raise(st, "TypeError", "outHumidity")
         ELSE LET humidity ==
                      ClampHumidity(RoundHalfEven(rec["outHumidity"].n,
                                                  rec["outHumidity"].d))
              IN  Emit(st, "outHumidity", <<"h">> \o FormatU(2, humidity, 1))
    ELSE st

\* weewx.units.convert((x, 'inHg', 'pressure'), 'mbar')[0] * 10, as the
\* rational [n, d]: 33.8639 mbar to the inch of mercury.
ConvertInHgToTenthsOfMbar(v) == [n |-> v.n * 338639, d |-> v.d * 1000]

\* Lines 146-154.  The conversion is outside the try.
BarometerStep(p, rec, st) ==
    IF st.raised # "none" THEN st
    ELSE IF Present(rec, "barometer")
    THEN IF ~IsNum(rec["barometer"]) THEN Raise(st, "TypeError", "barometer")
         ELSE LET barometer == ConvertInHgToTenthsOfMbar(rec["barometer"])
              IN  Emit(st, "barometer",
                       <<"b">> \o FormatF(5, barometer.n, barometer.d))
    ELSE st

\* Lines 156-163.
LuminosityStep(p, rec, st) ==
    IF st.raised # "none" THEN st
    ELSE IF p.reportLuminosity = 1 /\ Present(rec, "luminosity")
    THEN IF IsNum(rec["luminosity"])
         THEN Emit(st, "luminosity",
                   <<"L">> \o FormatU(3, rec["luminosity"].n, rec["luminosity"].d))
         ELSE LogError(st, "luminosity")
    ELSE st

\* Lines 165-166.
CommentStep(p, rec, st) ==
    IF st.raised # "none" THEN st
    ELSE IF p.comment # <<>> THEN Emit(st, "comment", p.comment)
    ELSE st

\* An encoder that appends the barometer before the humidity.
EncodeBarometerFirst(p, rec) ==
    CommentStep(p, rec,
     LuminosityStep(p, rec,
      HumidityStep(p, rec,
       BarometerStep(p, rec,
        DailyRainStep(p, rec,
         RainRateStep(p, rec,
          OutTempStep(p, rec,
           WindGustStep(p, rec,
            WindSpeedStep(p, rec,
             WindDirStep(p, rec,
              PositionStep(p, rec,
               HeaderStep(p, rec, EncStart))))))))))))

\* Lines 54-166 in their order.
Encode(p, rec) ==
    CommentStep(p, rec,
     LuminosityStep(p, rec,
      BarometerStep(p, rec,
       HumidityStep(p, rec,
        DailyRainStep(p, rec,
         RainRateStep(p, rec,
          OutTempStep(p, rec,
           WindGustStep(p, rec,
            WindSpeedStep(p, rec,
             WindDirStep(p, rec,
              PositionStep(p, rec,
               HeaderStep(p, rec, EncStart))))))))))))

\* ''.join(data), line 168.
RECURSIVE Join(_)
Join(d) == IF d = <<>> THEN <<>> ELSE Head(d).s \o Join(Tail(d))

----------------------------------------------------------------------------
\* The archive records the host engine delivers

\* 2023-01-01T00:00:00Z, and nothing measured.
BaseRecord ==
    [k \in Keys |-> IF k = "dateTime" THEN Num(1672531200) ELSE Absent]

\* The other values each key takes.
Alternatives(k) ==
    CASE k = "dateTime"    -> {Absent, None, Num(1709251140)}
      [] k = "windDir"     -> {None, NotNum, Num(-1), Half(-1), Num(0), Half(1),
                               Num(1), Half(719), Num(360)}
      [] k = "windSpeed"   -> {None, NotNum, Half(5), Num(120)}
      [] k = "windGust"    -> {None, NotNum, Num(7)}
      [] k = "outTemp"     -> {None, NotNum, Num(32), Num(-5), Num(-99),
                               Num(-100), Half(-1), Num(1000)}
      [] k = "rainRate"    -> {None, NotNum, Half(1)}
      [] k = "daily_rain"  -> {None, Half(1)}
      [] k = "dayRain"     -> {None, NotNum, Half(1)}
      [] k = "outHumidity" -> {None, NotNum, Num(0), Half(9), Num(99),
                               Half(199), Num(100), Num(101)}
      [] k = "barometer"   -> {None, NotNum, Half(59)}
      [] k = "luminosity"  -> {None, NotNum, Half(11)}

KeySeq == <<"dateTime", "windDir", "windSpeed", "windGust", "outTemp",
            "rainRate", "daily_rain", "dayRain", "outHumidity", "barometer",
            "luminosity">>

\* The records that differ from BaseRecord in at most n of the keys
\* KeySeq[i], KeySeq[i+1], ...
RECURSIVE VaryFrom(_, _)
VaryFrom(i, n) ==
    IF i > Len(KeySeq) \/ n = 0 THEN {BaseRecord}
    ELSE VaryFrom(i + 1, n)
         \cup UNION { { [r EXCEPT ![KeySeq[i]] = v] : r \in VaryFrom(i + 1, n - 1) }
                      : v \in Alternatives(KeySeq[i]) }

EncRecords == VaryFrom(1, MaxVaried)

\* The records of the file-system specification: four distinct packets and
\* one record whose encoding raises.
FileRecords ==
    { BaseRecord,
      [BaseRecord EXCEPT !["windDir"] = Num(0), !["outHumidity"] = Num(100)],
      [BaseRecord EXCEPT !["outTemp"] = Num(-5), !["windSpeed"] = Num(120)],
      [BaseRecord EXCEPT !["windDir"] = NotNum] }

FileConfs ==
    { c \in Confs :
        \/ /\ ~Contains(c.station_model, Accurite) /\ c.station_model[1] = "v"
           /\ c.include_position = 0 /\ c.report_luminosity = 0 /\ c.comment = <<>>
        \/ /\ Contains(c.station_model, Accurite)
           /\ c.include_position = 1 /\ c.report_luminosity = 1 /\ c.comment # <<>> }

----------------------------------------------------------------------------
\* The file system

\* Line 14.
OutputFilename == "aprs.pkt"

\* A handler that writes the output file in place.
OutputFilenameInPlace == OutputFilename

\* Line 15: output_filename + '.tmp'.
OutputFilenameTmp == "aprs.pkt.tmp"

FileNames == {OutputFilename, OutputFilenameTmp}

InodeIds == 1..MaxInodes

Referenced(i, nm, h, r) == (\E f \in FileNames : nm[f] = i) \/ h = i \/ r = i

FreeInode(nm, h, r) ==
    CHOOSE i \in InodeIds :
        /\ ~Referenced(i, nm, h, r)
        /\ \A j \in 1..(i - 1) : Referenced(j, nm, h, r)

\* An inode that no name and no descriptor refers to is gone.
Collect(ino, nm, h, r) ==
    [i \in InodeIds |-> IF Referenced(i, nm, h, r) THEN ino[i] ELSE <<>>]

NoPacket == [some |-> FALSE, s |-> <<>>]
Packet(s) == [some |-> TRUE, s |-> s]

\* What a reader of output_filename would find there now.
OutputContent ==
    IF names[OutputFilename] = 0 THEN NoPacket
    ELSE Packet(inodes[names[OutputFilename]])

----------------------------------------------------------------------------
\* The service

\* The engine calls the handler bound at line 49 with a new archive record.
NewArchiveRecord(rec) ==
    /\ pc = "idle"
    /\ events < MaxEvents
    /\ events' = events + 1
    /\ record' = rec
    /\ pc' = "encode"
    /\ prevOutcome' = outcome
    /\ outcome' = "running"
    /\ data' = <<>>
    /\ log' = {}
    /\ raised' = "none"
    /\ raisedAt' = "none"
    /\ wxdata' = <<>>
    /\ UNCHANGED <<conf, profile, names, inodes, hfd, readerVars, produced, lastRenamed>>

\* Lines 54-168: encode and join, or leave the handler with the exception.
EncodeRecord ==
    /\ pc = "encode"
    /\ LET st == Encode(profile, record)
       IN  /\ data' = st.data
           /\ log' = st.log
           /\ raised' = st.raised
           /\ raisedAt' = st.raisedAt
           /\ IF st.raised = "none"
              THEN /\ wxdata' = Join(st.data)
                   /\ produced' = produced \cup {Join(st.data)}
                   /\ pc' = "open"
                   /\ outcome' = outcome
              ELSE /\ wxdata' = <<>>
                   /\ produced' = produced
                   /\ pc' = "idle"
                   /\ outcome' = st.raised
    /\ UNCHANGED <<conf, profile, record, prevOutcome, events, names, inodes, hfd,
                   readerVars, lastRenamed>>

\* An open that keeps what the file holds (mode 'a').
OpenTmpAppend ==
    /\ pc = "open"
    /\ IF names[OutputFilenameTmp] = 0
       THEN LET i == FreeInode(names, hfd, rfd)
            IN  /\ names' = [names EXCEPT ![OutputFilenameTmp] = i]
                /\ inodes' = [inodes EXCEPT ![i] = <<>>]
                /\ hfd' = i
       ELSE /\ names' = names
            /\ inodes' = inodes
            /\ hfd' = names[OutputFilenameTmp]
    /\ pc' = "write"
    /\ UNCHANGED <<conf, profile, record, encVars, outcome, prevOutcome, events,
                   readerVars, produced, lastRenamed>>

\* Line 171: open(tmp, 'w') creates the file or truncates it.
OpenTmp ==
    /\ pc = "open"
    /\ IF names[OutputFilenameTmp] = 0
       THEN LET i == FreeInode(names, hfd, rfd)
            IN  /\ names' = [names EXCEPT ![OutputFilenameTmp] = i]
                /\ inodes' = [inodes EXCEPT ![i] = <<>>]
                /\ hfd' = i
       ELSE /\ names' = names
            /\ inodes' = [inodes EXCEPT ![names[OutputFilenameTmp]] = <<>>]
            /\ hfd' = names[OutputFilenameTmp]
    /\ pc' = "write"
    /\ UNCHANGED <<conf, profile, record, encVars, outcome, prevOutcome, events,
                   readerVars, produced, lastRenamed>>

\* Line 171: the open fails; the exception leaves the handler.
FailOpen ==
    /\ pc = "open"
    /\ pc' = "idle"
    /\ outcome' = "OSError"
    /\ UNCHANGED <<conf, profile, record, encVars, prevOutcome, events, names,
                   inodes, hfd, readerVars, produced, lastRenamed>>

\* Lines 172-173: write, and close at the end of the with block.
WriteTmp ==
    /\ pc = "write"
    /\ inodes' = [inodes EXCEPT ![hfd] = @ \o wxdata]
    /\ hfd' = 0
    /\ pc' = "rename"
    /\ UNCHANGED <<conf, profile, record, encVars, outcome, prevOutcome, events,
                   names, readerVars, produced, lastRenamed>>

\* Lines 172-173: the write fails (disk full) after part of the packet;
\* the with block closes the file and the exception leaves the handler.
FailWrite ==
    /\ pc = "write"
    /\ \E k \in 0..Min(MaxShortWrite, Len(wxdata) - 1) :
           inodes' = [inodes EXCEPT ![hfd] = @ \o SubSeq(wxdata, 1, k)]
    /\ hfd' = 0
    /\ pc' = "idle"
    /\ outcome' = "OSError"
    /\ UNCHANGED <<conf, profile, record, encVars, prevOutcome, events, names,
                   readerVars, produced, lastRenamed>>

\* Line 174: os.rename(tmp, output_filename).
RenameTmp ==
    /\ pc = "rename"
    /\ LET nm == IF OutputFilenameTmp = OutputFilename THEN names
                 ELSE [names EXCEPT ![OutputFilename] = names[OutputFilenameTmp],
                                    ![OutputFilenameTmp] = 0]
       IN  /\ names' = nm
           /\ inodes' = Collect(inodes, nm, hfd, rfd)
    /\ pc' = "idle"
    /\ outcome' = "ok"
    /\ lastRenamed' = Packet(wxdata)
    /\ UNCHANGED <<conf, profile, record, encVars, prevOutcome, events, hfd,
                   readerVars, produced>>

\* Line 174: the rename fails; the exception leaves the handler.
FailRename ==
    /\ pc = "rename"
    /\ pc' = "idle"
    /\ outcome' = "OSError"
    /\ UNCHANGED <<conf, profile, record, encVars, prevOutcome, events, names,
                   inodes, hfd, readerVars, produced, lastRenamed>>

----------------------------------------------------------------------------
\* The downstream reader, another process that polls output_filename

ReaderOpen ==
    /\ rfd = 0
    /\ names[OutputFilename] # 0
    /\ rfd' = names[OutputFilename]
    /\ rpos' = 0
    /\ rbuf' = <<>>
    /\ UNCHANGED <<conf, profile, pc, record, encVars, outcome, prevOutcome,
                   events, names, inodes, hfd, observed, produced, lastRenamed>>

\* One read call: up to ReadChunk characters from the offset; an empty read
\* is the end of the file, and the reader then has its content.
ReaderRead ==
    /\ rfd # 0
    /\ LET content == inodes[rfd]
           chunk == SubSeq(content, rpos + 1, Min(rpos + ReadChunk, Len(content)))
       IN  IF chunk # <<>>
           THEN /\ rbuf' = rbuf \o chunk
                /\ rpos' = rpos + Len(chunk)
                /\ UNCHANGED <<rfd, observed, inodes>>
           ELSE /\ observed' = Packet(rbuf)
                /\ rfd' = 0
                /\ rpos' = 0
                /\ rbuf' = <<>>
                /\ inodes' = Collect(inodes, names, hfd, 0)
    /\ UNCHANGED <<conf, profile, pc, record, encVars, outcome, prevOutcome,
                   events, names, hfd, produced, lastRenamed>>

----------------------------------------------------------------------------
\* Specifications

InitService ==
    /\ profile = APRSInit(conf)
    /\ data = <<>>
    /\ log = {}
    /\ raised = "none"
    /\ raisedAt = "none"
    /\ wxdata = <<>>
    /\ prevOutcome = "none"
    /\ names = [f \in FileNames |-> 0]
    /\ inodes = [i \in InodeIds |-> <<>>]
    /\ hfd = 0
    /\ rfd = 0
    /\ rpos = 0
    /\ rbuf = <<>>
    /\ observed = NoPacket
    /\ produced = {}
    /\ lastRenamed = NoPacket

\* The service after construction, waiting for archive records, with the
\* reader polling.
Init ==
    /\ conf \in FileConfs
    /\ InitService
    /\ pc = "idle"
    /\ record = BaseRecord
    /\ outcome = "none"
    /\ events = 0

Next ==
    \/ \E rec \in FileRecords : NewArchiveRecord(rec)
    \/ EncodeRecord
    \/ OpenTmp
    \/ FailOpen
    \/ WriteTmp
    \/ FailWrite
    \/ RenameTmp
    \/ FailRename
    \/ ReaderOpen
    \/ ReaderRead

Spec == Init /\ [][Next]_vars

\* One handler run on each profile and each record of EncRecords.
InitEnc ==
    /\ conf \in Confs
    /\ InitService
    /\ pc = "encode"
    /\ record \in EncRecords
    /\ outcome = "running"
    /\ events = 1

NextEnc ==
    \/ EncodeRecord
    \/ OpenTmp
    \/ WriteTmp
    \/ RenameTmp

SpecEnc == InitEnc /\ [][NextEnc]_vars

----------------------------------------------------------------------------
\* Vocabulary of the properties

\* The encoding part of the handler has run on `record`.
Encoded == pc # "encode" /\ outcome # "none"

\* The texts of the fragments appended for field f, in order.
Texts(f) ==
    LET sel == SelectSeq(data, LAMBDA x : x.f = f)
    IN  [i \in 1..Len(sel) |-> sel[i].s]

HasFragment(f) == \E i \in 1..Len(data) : data[i].f = f

\* The encoding got as far as the step of field f.
Reached(f) == raised = "none" \/ Rank(raisedAt) >= Rank(f)

\* The fragments appended for the fields after f.
After(d, f) == SelectSeq(d, LAMBDA x : Rank(x.f) > Rank(f))

TwoDigits(n) == <<DigitChar(n \div 10), DigitChar(n % 10)>>

ThreeDigits(n) ==
    <<DigitChar(n \div 100), DigitChar((n \div 10) % 10), DigitChar(n % 10)>>

Rounded(v) == RoundHalfEven(v.n, v.d)

----------------------------------------------------------------------------
\* C1 (Spec).  Whatever the interleaving of the handler's open, write and
\* rename (and of their failures) with the reader's open and reads, the
\* content found at output_filename, the content of the file the reader has
\* open, and every content the reader has read to the end, is one whole
\* packet joined by some handler run: never empty, cut or mixed.
C1_ReaderSeesWholePackets ==
    /\ OutputContent.some => OutputContent.s \in produced
    /\ rfd # 0 => inodes[rfd] \in produced
    /\ observed.some => observed.s \in produced

\* The reader is part-way through a packet that has since been replaced.
C1_Witness ==
    /\ rfd # 0
    /\ rpos > 0
    /\ rfd # names[OutputFilename]
    /\ Cardinality(produced) >= 2

\* C2 (SpecEnc).  For every profile and every record, the encoding part
\* never raises.  Stated here for the records that ask least of the code:
\* a numeric dateTime, every other key absent, null or numeric, and no
\* daily_rain (whose value is read under another key).
C2_EncodingNeverRaises ==
    (/\ Encoded
     /\ IsNum(record["dateTime"])
     /\ \A k \in Keys : record[k].t # "str"
     /\ ~Present(record, "daily_rain")) => raised = "none"

\* C3 (SpecEnc).  When the formatting of exactly one present field fails
\* (a non-numeric value, everything else in order), the handler does not
\* raise, the failure is logged, and the fragments of the later fields are
\* those of the same record without that field.
FormattedFields == {"windDir", "windSpeed", "windGust", "outTemp", "rainRate",
                    "dayRain", "outHumidity", "barometer", "luminosity"}

SoleFailure(k) ==
    /\ record[k].t = "str"
    /\ \A j \in Keys \ {k} : record[j].t # "str"
    /\ profile.has_wind_speed_marker
    /\ Contains(profile.stationModel, Accurite) \/ IsNum(record["dateTime"])
    /\ IF k = "dayRain" THEN IsNum(record["daily_rain"])
       ELSE ~Present(record, "daily_rain")
    /\ k = "luminosity" => profile.reportLuminosity = 1

C3_FieldFailureIsLocal ==
    \A k \in FormattedFields :
        (Encoded /\ SoleFailure(k)) =>
            /\ raised = "none"
            /\ k \in log
            /\ After(data, k)
                 = After(Encode(profile, [record EXCEPT ![k] = Absent]).data, k)

C5_WindDirection ==
    (Encoded /\ Reached("windDir") /\ IsNum(record["windDir"])) =>
        LET r == Rounded(record["windDir"])
        IN  /\ r <= 0 =>
                Texts("windDir") = <<profile.wind_direction_marker \o <<"3", "6", "0">> >>
            /\ r \in 1..360 =>
                Texts("windDir") = <<profile.wind_direction_marker \o ThreeDigits(r)>>

C5_Witness ==
    /\ Encoded
    /\ record["windDir"] = Half(-1)
    /\ Texts("windDir") = << <<"c", "3", "6", "0">> >>

\* C6 (SpecEnc).  A numeric outHumidity that rounds to 100 or more is
\* emitted as h00, one that rounds into 0..99 as h and the value on 2
\* digits; an absent or null outHumidity leaves no humidity fragment.
C6_Humidity ==
    Encoded =>
        /\ (Reached("outHumidity") /\ IsNum(record["outHumidity"])) =>
               LET r == Rounded(record["outHumidity"])
               IN  /\ r >= 100 => Texts("outHumidity") = << <<"h", "0", "0">> >>
                   /\ r \in 0..99 => Texts("outHumidity") = << <<"h">> \o TwoDigits(r) >>
        /\ ~Present(record, "outHumidity") => Texts("outHumidity") = <<>>

C6_Witness ==
    /\ Encoded
    /\ record["outHumidity"] = Half(199)
    /\ Texts("outHumidity") = << <<"h", "0", "0">> >>

\* C7 as stated (SpecEnc).  An integer outTemp is emitted as t, the sign,
\* and the magnitude zero-padded to 3 digits (the sign outside the width);
\* an absent or null outTemp as t...
C7_SignOutsideWidth ==
    (Encoded /\ Reached("outTemp")) =>
        /\ (IsNum(record["outTemp"]) /\ record["outTemp"].d = 1) =>
               LET v == record["outTemp"].n
               IN  Texts("outTemp")
                     = << <<"t">> \o (IF v < 0 THEN <<"-">> ELSE <<>>)
                          \o ZeroPad(3, FALSE, Abs(v)) >>
        /\ ~Present(record, "outTemp") => Texts("outTemp") = << <<"t">> \o Dots >>

\* C7 amended (SpecEnc).  An integer outTemp is emitted as t and the signed
\* value zero-padded to a width of 3 that includes the sign: 3 digits for a
\* value in 0..999, '-' and 2 digits for a value in -99..-1, the plain
\* decimal beyond; an absent or null outTemp as t...
C7_SignInsideWidth ==
    (Encoded /\ Reached("outTemp")) =>
        /\ (IsNum(record["outTemp"]) /\ record["outTemp"].d = 1) =>
               LET v == record["outTemp"].n
               IN  Texts("outTemp")
                     = << <<"t">> \o
                          (IF v \in 0..999 THEN ThreeDigits(v)
                           ELSE IF v \in (-99)..(-1) THEN <<"-">> \o TwoDigits(-v)
                           ELSE IF v < 0 THEN <<"-">> \o Digits(-v)
                           ELSE Digits(v)) >>
        /\ ~Present(record, "outTemp") => Texts("outTemp") = << <<"t">> \o Dots >>

C7_Witness ==
    /\ Encoded
    /\ record["outTemp"] = Num(-5)
    /\ Texts("outTemp") = << <<"t", "-", "0", "5">> >>

\* C8 (SpecEnc).  For every profile, when windSpeed is absent or null the
\* encoder emits the profile's wind-speed marker followed by ... and goes
\* on to the gust field.
C8_WindSpeedPlaceholder ==
    (Encoded /\ Reached("windSpeed") /\ ~Present(record, "windSpeed")) =>
        /\ profile.has_wind_speed_marker
        /\ Texts("windSpeed") = <<profile.wind_speed_marker \o Dots>>
        /\ HasFragment("windGust")

\* C9 (Spec).  A failure of the open, the write or the rename leaves the
\* handler as an exception with output_filename as the last successful
\* rename left it (no file if there was none); nothing but a successful
\* rename changes it; and a run that ends without failure, whatever
\* happened to the runs before it, leaves there exactly the packet of its
\* own record.
C9_WriteFailure ==
    /\ OutputContent = lastRenamed
    /\ (pc = "idle" /\ outcome = "OSError") => hfd = 0
    /\ (pc = "idle" /\ outcome = "ok") =>
           OutputContent = Packet(Join(Encode(profile, record).data))

\* A run that follows a failed write ends well.
C9_Witness ==
    /\ pc = "idle"
    /\ outcome = "ok"
    /\ prevOutcome = "OSError"
    /\ names[OutputFilenameTmp] = 0

\* C10 (SpecEnc).  With include_position set the profile has message type
\* '/', wind-direction marker '' and wind-speed marker '/', whatever the
\* station model; without it, and with a station model that does not
\* contain 'accurite', it has '_', 'c' and 's'.
C10_Markers ==
    /\ conf.include_position # 0 =>
           /\ profile.message_type = <<"/">>
           /\ profile.wind_direction_marker = <<>>
           /\ profile.has_wind_speed_marker
           /\ profile.wind_speed_marker = <<"/">>
    /\ (conf.include_position = 0 /\ ~Contains(conf.station_model, Accurite)) =>
           /\ profile.message_type = <<"_">>
           /\ profile.wind_direction_marker = <<"c">>
           /\ profile.has_wind_speed_marker
           /\ profile.wind_speed_marker = <<"s">>

C10_Witness ==
    /\ Encoded
    /\ conf.include_position # 0
    /\ Contains(conf.station_model, Accurite)
    /\ Texts("windDir") = <<Dots>>
    /\ Texts("windSpeed") = << <<"/">> \o Dots >>

====
